---- MODULE Spec2Model ----
(***************************************************************************)
(* State-machine model of the WhatsApp bulk sender (src/index.js).         *)
(*                                                                         *)
(* The source file holds two revisions of the server one after the other:  *)
(* the first (lines 1-451) sends a task's messages from an inline async    *)
(* loop started by POST /send-message, the second (lines 453-1555) pushes  *)
(* a task's messages on a per-session queue drained by                     *)
(* processMessageQueue.  The first revision defers to the second for the   *)
(* remaining endpoints ("Rest of the endpoints remain the same", line      *)
(* 443), so the model runs both /send-message handlers against one set of  *)
(* registries and one /code, /task-status, /stop-task, /delete-session.    *)
(*                                                                         *)
(* JavaScript runs one callback at a time: every action below is the code  *)
(* between two awaits (or a whole synchronous handler).  Objects keep      *)
(* their identity: sessionInfo, queue and taskInfo objects live in the     *)
(* sequences sessions, queues and tasks, and the Maps activeClients,       *)
(* messageQueues and activeTasks hold indexes into them (0 = no entry), so *)
(* a closure can go on using an object its Map no longer holds.            *)
(***************************************************************************)
EXTENDS Integers, Sequences, FiniteSets, TLC

\* ---------------------------------------------------------------- bounds
MaxClock == 1      \* Date.now() takes the values 0..MaxClock
MaxTasks == 2      \* taskInfo objects created over a run
MaxMsgs == 2       \* non-empty lines of an uploaded message file
MaxSocks == 12     \* makeWASocket calls over a run
FewSocks == 2      \* makeWASocket calls over a run with tasks
MaxPending == 2    \* reconnect calls the interval timers have pending at a time
MaxTarget == 3     \* characters of the target field of a submission
MaxLine == 2       \* characters on a line of an uploaded message file
MaxSess == 1       \* sessionInfo objects created over a run
MaxInline == 1     \* submissions to the first revision's /send-message
MaxOutageMsgs == 4  \* lines of a file sent through a connection that is down
MaxDelay == 2      \* seconds of the longest delaySec: chunks of the longest delay

\* ------------------------------------------------------ program constants
maxSendAttempts == 3          \* inline loop: sends per message
maxRetries == 3               \* queue: failed sends before a message is dropped
maxReconnectAttempts == 10    \* inline loop: reconnects per task
v1MaxAutoReconnect == 5       \* first revision's close handler
backoffBaseMs == 1000         \* close handler: wait before the first reconnect
backoffCapMs == 30000         \* close handler: longest wait before a reconnect
v1ReconnectDelayMs == 5000    \* first revision's close handler: every wait

\* ------------------------------------------------------------ input sets
Users == {"u1", "u2"}         \* the userIds requests carry
Pairers == {"u1"}             \* the users who pair a number
NoUser == "none"              \* a request that carries no userId
Numbers == {"n1"}
\* `session_${num}_${userId}`
SessionIdOf(num, userId) == <<"session", num, userId>>
SessionIds == {SessionIdOf(n, u) : n \in Numbers, u \in Pairers}
\* delaySec of a submission, in seconds
Delays == {0, 1}
\* delays of one chunk and of several
LongDelays == 1..MaxDelay
\* the delaySec fields a form can carry: "0", "1", "-1"
SubmittedDelays == Delays \cup {0 - 1}
\* an uploaded message file: lines of blanks ("sp") and other characters
Chars == {"sp", "a"}
Lines == UNION {[1..k -> Chars] : k \in 0..MaxLine}
Files == UNION {[1..k -> Lines] : k \in 0..MaxMsgs}

RECURSIVE TrimStart(_), TrimEnd(_)
TrimStart(l) == IF l = <<>> \/ Head(l) # "sp" THEN l ELSE TrimStart(Tail(l))
TrimEnd(l) ==
    IF l = <<>> \/ l[Len(l)] # "sp" THEN l ELSE TrimEnd(SubSeq(l, 1, Len(l) - 1))
\* String.prototype.trim
Trim(l) == TrimEnd(TrimStart(l))
\* the array without the trimming
ReadMessagesUntrimmed(file) == SelectSeq(file, LAMBDA m : m # <<>>)
\* `readFileSync(filePath).split("\n").map(m => m.trim()).filter(Boolean)`
NonEmpty(m) == m # <<>>
ReadMessages(file) == SelectSeq([i \in 1..Len(file) |-> Trim(file[i])], NonEmpty)
\* the files of at most one line of at most one character
ShortFiles == {file \in Files : Len(file) <= 1 /\ \A i \in DOMAIN file : Len(file[i]) <= 1}
\* a file of n lines of text
PlainFile(n) == [i \in 1..n |-> <<"a">>]
\* the target field of a form: digits ("1") and the characters of the two
\* suffixes, '@g.us' and '@s.whatsapp.net', each shortened to its first two
\* characters
TargetChars == {"1", "@", "g", "s"}
Targets == UNION {[1..k -> TargetChars] : k \in 0..MaxTarget}
TargetTypes == {"group", "individual"}
Phone == <<"1">>
Suffix(targetType) == IF targetType = "group" THEN <<"@", "g">> ELSE <<"@", "s">>
\* String.prototype.includes
Includes(x, part) ==
    \E i \in 1..(Len(x) - Len(part) + 1) : SubSeq(x, i, i + Len(part) - 1) = part
\* `recipient = targetType === "group" ? (target.includes('@g.us') ? target :
\* target + '@g.us') : (target.includes('@s.whatsapp.net') ? target : target +
\* '@s.whatsapp.net')`
Resolve(targetType, target) ==
    IF Includes(target, Suffix(targetType)) THEN target
    ELSE target \o Suffix(targetType)
\* what waClient.sendMessage does: resolves, or throws an error whose message
\* names a closed/timed-out connection ("closed"), an authentication failure
\* ("fatal") or anything else such as rate limiting ("other")
SendOutcomes == {"ok", "closed", "other", "fatal"}
\* sendMessage rejects with a value that has no `message` (null, undefined):
\* reading sendErr.message in the catch block throws a TypeError
Crash == "crash"
NoTime == 0 - 1                \* a Date field that was never written

VARIABLES
    now,            \* Date.now()
    creds,          \* creds[sid]: the auth state on disk is registered
    activeClients,  \* Map sessionId -> sessionInfo (index into sessions, 0 = none)
    sessions,       \* the sessionInfo objects
    socks,          \* the sockets makeWASocket returned
    messageQueues,  \* Map sessionId -> queue (index into queues, 0 = none)
    queues,         \* the queue objects
    proc,           \* proc[q]: the processMessageQueue call running on queue q
    activeTasks,    \* Map taskId -> taskInfo (index into tasks, 0 = none)
    tasks           \* the taskInfo objects, with their inline loop's locals

vars == <<now, creds, activeClients, sessions, socks, messageQueues, queues,
          proc, activeTasks, tasks>>

TaskIds == 0..MaxClock        \* `TASK_${Date.now()}`

Init ==
    /\ now = 0
    /\ creds = [sid \in SessionIds |-> FALSE]
    /\ activeClients = [sid \in SessionIds |-> 0]
    /\ sessions = <<>>
    /\ socks = <<>>
    /\ messageQueues = [sid \in SessionIds |-> 0]
    /\ queues = <<>>
    /\ proc = <<>>
    /\ activeTasks = [id \in TaskIds |-> 0]
    /\ tasks = <<>>

\* Date.now() / new Date(): the clock is looked at only when the code reads
\* it, and a read finds it where the last read left it (millisecond
\* resolution) or later (tick).
ReadClock(tick) == IF tick /\ now < MaxClock THEN now + 1 ELSE now

\* ------------------------------------------------------------- sessions
\* The sessionInfo object GET /code creates.  fresh stands for
\* Date.now() - lastActivity < 120000; timersV2/timersV1 count the reconnect
\* closes counts the close events of the session's sockets since the last
\* open event: the connection failures in a row.
\* setTimeouts pending on the object, pendFirst/pendRe/pendV1 the calls of
\* initializeWhatsAppSession(s), initializeWhatsAppSession(s, true) and
\* initializeClient(s) that nobody awaits and that have not reached
\* makeWASocket yet; codeReq is the /code request's isResolved latch,
\* hooks says connectionResolve/connectionReject are set and keepAlive that
\* the intervals of startKeepAlive are running.
NewSessionInfo(sid, userId, registered) ==
    [sessionId |-> sid, ownerId |-> userId, client |-> 0,
     registered |-> registered, isConnecting |-> ~registered,
     reconnectAttempts |-> 0, forceReconnect |-> TRUE, fresh |-> TRUE,
     timersV2 |-> 0, timersV1 |-> 0,
     pendFirst |-> 1, pendRe |-> 0, pendV1 |-> 0,
     codeReq |-> IF registered THEN "none" ELSE "pending", hooks |-> FALSE,
     keepAlive |-> FALSE, closes |-> 0]

\* function isConnectionHealthy(sessionInfo)
isConnectionHealthy(s) == s.registered /\ s.client # 0 /\ s.fresh

\* the session state in which ensureSessionConnected returns true at once
Connected(s) == s.client # 0 /\ s.registered /\ ~s.isConnecting

\* function initializeMessageQueue(sessionId): the Map and the objects after it
NewQueue == [messages |-> <<>>, isProcessing |-> FALSE, retryCount |-> 0]
IdleProc == [pc |-> "idle", job |-> <<>>, sess |-> 0, sock |-> 0]

\* resolveRequest / rejectRequest of GET /code: the first call wins
SettleCodeRequest(s) ==
    IF s.codeReq = "pending"
    THEN [s EXCEPT !.codeReq = "done", !.isConnecting = FALSE]
    ELSE s

\* makeWASocket and the assignments after it, in initializeWhatsAppSession
\* (via = "v2") and in initializeClient (via = "v1")
NewSock(so, via) == [sess |-> so, state |-> "connecting", via |-> via]

SocketCreated(s, h, isReconnect) ==
    [s EXCEPT !.client = h, !.isConnecting = TRUE, !.fresh = TRUE,
              !.reconnectAttempts = IF isReconnect THEN @ + 1 ELSE 0]

\* ---------------------------------------------------- processMessageQueue
\* One turn of `while (queue.messages.length > 0 && !queue.stopRequested)` up
\* to its first await; queue.stopRequested is never assigned.  ss is the
\* sessions sequence as the caller leaves it.
LoopHead(queue, p, ss) ==
    IF Len(queue.messages) > 0
    THEN [q |-> queue,
          p |-> IF isConnectionHealthy(ss[p.sess])
                THEN [p EXCEPT !.pc = "sending", !.job = Head(queue.messages),
                               !.sock = ss[p.sess].client]
                ELSE [p EXCEPT !.pc = "reinit", !.job = Head(queue.messages),
                               !.sock = 0]]
    ELSE [q |-> [queue EXCEPT !.isProcessing = FALSE], p |-> IdleProc]

\* processMessageQueue(sessionInfo) from its call to its first await
processMessageQueue(queue, p, so, ss) ==
    IF queue.isProcessing \/ Len(queue.messages) = 0
    THEN [q |-> queue, p |-> p]
    ELSE LoopHead([queue EXCEPT !.isProcessing = TRUE], [p EXCEPT !.sess = so], ss)

\* `if (messageJob.delayMs > 0) await delay(messageJob.delayMs)` and on
AfterTurn(queue, p, ss) ==
    IF p.job.delayMs > 0
    THEN [q |-> queue, p |-> [p EXCEPT !.pc = "delay"]]
    ELSE LoopHead(queue, p, ss)

\* queue.messages.shift()
Shift(msgs) == IF Len(msgs) > 0 THEN Tail(msgs) ELSE msgs

\* a catch block that waits and tries again without counting
SendFailedUncounted(queue, p, ss) ==
    [q |-> queue, p |-> [p EXCEPT !.pc = "retry_wait"]]

\* the catch block of the loop: it treats every error alike
SendFailed(queue, p, ss) ==
    IF queue.retryCount + 1 >= maxRetries
    THEN AfterTurn([queue EXCEPT !.messages = Shift(@), !.retryCount = 0], p, ss)
    ELSE [q |-> [queue EXCEPT !.retryCount = @ + 1],
          p |-> [p EXCEPT !.pc = "retry_wait"]]

\* ------------------------------------------------- pairing and connection
\* GET /code?number=num&userId=userId, for a number and a userId that are given
Code(num, userId) ==
    LET sid == SessionIdOf(num, userId)
        ex == activeClients[sid]
    IN  /\ Len(sessions) < MaxSess
        /\ ~(ex # 0 /\ (sessions[ex].isConnecting \/ sessions[ex].registered))
        /\ sessions' = Append(sessions, NewSessionInfo(sid, userId, creds[sid]))
        /\ activeClients' = [activeClients EXCEPT ![sid] = Len(sessions) + 1]
        /\ IF messageQueues[sid] = 0
           THEN /\ queues' = Append(queues, NewQueue)
                /\ proc' = Append(proc, IdleProc)
                /\ messageQueues' = [messageQueues EXCEPT ![sid] = Len(queues) + 1]
           ELSE UNCHANGED <<queues, proc, messageQueues>>
        /\ UNCHANGED <<now, creds, socks, activeTasks, tasks>>

\* The 180 s connectionTimeout of GET /code fires, or requestPairingCode
\* answers: resolveRequest/rejectRequest clear isConnecting.
SettleCode(so) ==
    /\ sessions[so].codeReq = "pending"
    /\ sessions' = [sessions EXCEPT ![so] = SettleCodeRequest(@)]
    /\ UNCHANGED <<now, creds, activeClients, socks, messageQueues, queues,
                   proc, activeTasks, tasks>>

\* A call of initializeWhatsAppSession that nobody awaits reaches makeWASocket
\* (ok) or throws before it.  first: the call GET /code made.
InitSessionDone(so, first, ok) ==
    LET s == sessions[so]
        h == Len(socks) + 1
        s1 == IF first THEN [s EXCEPT !.pendFirst = @ - 1]
              ELSE [s EXCEPT !.pendRe = @ - 1]
    IN  /\ IF first THEN s.pendFirst > 0 ELSE s.pendRe > 0
        /\ ok => Len(socks) < MaxSocks
        /\ socks' = IF ok THEN Append(socks, NewSock(so, "v2")) ELSE socks
        /\ sessions' = [sessions EXCEPT ![so] =
              IF ok
              THEN [SocketCreated(s1, h, ~first) EXCEPT
                        !.hooks = @ \/ (first /\ s.codeReq # "none")]
              ELSE IF first THEN SettleCodeRequest([s1 EXCEPT !.isConnecting = FALSE])
              ELSE [s1 EXCEPT !.isConnecting = FALSE]]
        /\ UNCHANGED <<now, creds, activeClients, messageQueues, queues, proc,
                       activeTasks, tasks>>

\* A call of initializeClient that nobody awaits (the first revision's retry
\* timers) reaches makeWASocket or lands in its catch block.
InitClientFailed(s) ==
    [s EXCEPT !.isConnecting = FALSE, !.reconnectAttempts = @ + 1,
              !.timersV1 = IF s.reconnectAttempts + 1 <= v1MaxAutoReconnect
                           THEN @ + 1 ELSE @]

InitClientDone(so, ok) ==
    LET s == [sessions[so] EXCEPT !.pendV1 = @ - 1]
        h == Len(socks) + 1
    IN  /\ sessions[so].pendV1 > 0
        /\ ok => Len(socks) < MaxSocks
        /\ socks' = IF ok THEN Append(socks, NewSock(so, "v1")) ELSE socks
        /\ sessions' = [sessions EXCEPT ![so] =
              IF ok THEN [s EXCEPT !.client = h, !.isConnecting = TRUE]
              ELSE InitClientFailed(s)]
        /\ UNCHANGED <<now, creds, activeClients, messageQueues, queues, proc,
                       activeTasks, tasks>>

\* connection.update with connection === "open" on socket h
OnOpen(s, via) ==
    IF via = "v2"
    THEN LET s1 == [s EXCEPT !.registered = TRUE, !.isConnecting = FALSE,
                             !.reconnectAttempts = 0, !.fresh = TRUE,
                             !.keepAlive = TRUE, !.closes = 0]
         IN  IF s.hooks THEN SettleCodeRequest(s1) ELSE s1
    ELSE [s EXCEPT !.registered = TRUE, !.isConnecting = FALSE,
                   !.reconnectAttempts = 0, !.closes = 0]

SockOpen(h) ==
    LET so == socks[h].sess
        sid == sessions[so].sessionId
        ss == [sessions EXCEPT ![so] = OnOpen(@, socks[h].via)]
        qi == messageQueues[sid]
        r == processMessageQueue(queues[qi], proc[qi], so, ss)
    IN  /\ socks[h].state = "connecting"
        /\ socks' = [socks EXCEPT ![h].state = "open"]
        /\ creds' = [creds EXCEPT ![sid] = TRUE]
        /\ sessions' = ss
        /\ IF socks[h].via = "v2" /\ qi # 0
           THEN /\ queues' = [queues EXCEPT ![qi] = r.q]
                /\ proc' = [proc EXCEPT ![qi] = r.p]
           ELSE UNCHANGED <<queues, proc>>
        /\ UNCHANGED <<now, activeClients, messageQueues, activeTasks, tasks>>

\* connection.update with connection === "close" on socket h; reason is
\* "loggedOut" (status 401), "lost" (shouldAttemptReconnect is true) or "bad"
\* (badSession, restartRequired, multideviceMismatch)
CloseReasons == {"loggedOut", "lost", "bad"}

\* `Math.pow(2, n)` and `Math.min(a, b)`
RECURSIVE Pow2(_)
Pow2(n) == IF n = 0 THEN 1 ELSE 2 * Pow2(n - 1)
Min(a, b) == IF a <= b THEN a ELSE b

\* the delay of the setTimeout that the close handler of a socket sets for
\* the reconnect, on the sessionInfo s it finds:
\* `Math.min(1000 * Math.pow(2, sessionInfo.reconnectAttempts), 30000)` in
\* initializeWhatsAppSession, 5000 in initializeClient
ReconnectDelayMs(s, via) ==
    IF via = "v2" THEN Min(backoffBaseMs * Pow2(s.reconnectAttempts), backoffCapMs)
    ELSE v1ReconnectDelayMs

OnClose(s, via, reason) ==
    IF via = "v2"
    THEN LET s0 == [s EXCEPT !.fresh = TRUE, !.keepAlive = FALSE, !.closes = @ + 1]
             s1 == CASE reason = "loggedOut" ->
                          [s0 EXCEPT !.registered = FALSE, !.isConnecting = FALSE,
                                     !.forceReconnect = FALSE]
                    [] reason = "lost" ->
                          [s0 EXCEPT !.isConnecting = TRUE, !.timersV2 = @ + 1]
                    [] OTHER -> [s0 EXCEPT !.isConnecting = FALSE]
         IN  IF s.hooks THEN SettleCodeRequest(s1) ELSE s1
    ELSE IF reason = "loggedOut"
         THEN [s EXCEPT !.registered = FALSE, !.isConnecting = FALSE, !.closes = @ + 1]
         ELSE IF s.reconnectAttempts + 1 <= v1MaxAutoReconnect
              THEN [s EXCEPT !.reconnectAttempts = @ + 1, !.timersV1 = @ + 1,
                             !.closes = @ + 1]
              ELSE [s EXCEPT !.reconnectAttempts = @ + 1, !.isConnecting = FALSE,
                             !.closes = @ + 1]

SockClose(h, reason) ==
    LET so == socks[h].sess
        sid == sessions[so].sessionId
    IN  /\ \/ socks[h].state \in {"connecting", "open"}
           \/ socks[h].state = "ended" /\ reason = "lost"
        /\ socks' = [socks EXCEPT ![h].state = "closed"]
        /\ sessions' = [sessions EXCEPT ![so] = OnClose(@, socks[h].via, reason)]
        /\ creds' = IF socks[h].via = "v2" /\ reason = "loggedOut"
                    THEN [creds EXCEPT ![sid] = FALSE] ELSE creds
        /\ UNCHANGED <<now, activeClients, messageQueues, queues, proc,
                       activeTasks, tasks>>

\* Two minutes pass without an event that writes sessionInfo.lastActivity.
ActivityStale(so) ==
    /\ sessions[so].fresh
    /\ sessions' = [sessions EXCEPT ![so].fresh = FALSE]
    /\ UNCHANGED <<now, creds, activeClients, socks, messageQueues, queues,
                   proc, activeTasks, tasks>>

\* The 25 s interval of startKeepAlive: the presence update went out on an
\* open socket and lastActivity, older than a minute, is written.
KeepAlive(so) ==
    LET s == sessions[so]
    IN  /\ s.keepAlive /\ s.client # 0 /\ s.registered /\ ~s.fresh
        /\ socks[s.client].state = "open"
        /\ sessions' = [sessions EXCEPT ![so].fresh = TRUE]
        /\ UNCHANGED <<now, creds, activeClients, socks, messageQueues, queues,
                       proc, activeTasks, tasks>>

\* The 30 s health check interval of startKeepAlive calls
\* initializeWhatsAppSession(sessionInfo, true).
HealthCheck(so) ==
    LET s == sessions[so]
    IN  /\ s.keepAlive /\ ~isConnectionHealthy(s) /\ s.registered
        /\ s.pendRe < MaxPending
        /\ sessions' = [sessions EXCEPT ![so].pendRe = @ + 1]
        /\ UNCHANGED <<now, creds, activeClients, socks, messageQueues, queues,
                       proc, activeTasks, tasks>>

\* The 45 s interval of startAutoReconnectService, for one entry of
\* activeClients
AutoReconnect(so) ==
    LET s == sessions[so]
    IN  /\ activeClients[s.sessionId] = so
        /\ s.registered /\ s.forceReconnect /\ ~isConnectionHealthy(s)
        /\ s.pendRe < MaxPending
        /\ sessions' = [sessions EXCEPT ![so].pendRe = @ + 1]
        /\ UNCHANGED <<now, creds, activeClients, socks, messageQueues, queues,
                       proc, activeTasks, tasks>>

\* The setTimeout of the close handler fires (second revision, then first).
ReconnectTimer(so) ==
    LET s == sessions[so]
    IN  /\ s.timersV2 > 0
        /\ sessions' = [sessions EXCEPT ![so] =
              IF activeClients[s.sessionId] # 0 /\ s.forceReconnect
              THEN [s EXCEPT !.timersV2 = @ - 1, !.pendRe = @ + 1]
              ELSE [s EXCEPT !.timersV2 = @ - 1]]
        /\ UNCHANGED <<now, creds, activeClients, socks, messageQueues, queues,
                       proc, activeTasks, tasks>>

RetryTimerV1(so) ==
    LET s == sessions[so]
    IN  /\ s.timersV1 > 0
        /\ sessions' = [sessions EXCEPT ![so] =
              IF activeClients[s.sessionId] # 0
              THEN [s EXCEPT !.timersV1 = @ - 1, !.pendV1 = @ + 1]
              ELSE [s EXCEPT !.timersV1 = @ - 1]]
        /\ UNCHANGED <<now, creds, activeClients, socks, messageQueues, queues,
                       proc, activeTasks, tasks>>

\* ------------------------------------------------------------------ tasks
\* The taskInfo object of POST /send-message and, for the first revision, the
\* locals of the handler and of the async loop it starts (pc, index,
\* sendAttempts, messageSent, chunk = t of the delay loop, waClient, sess =
\* sessionInfo, evict = the 30 minute removal timer is pending).  pc is
\* "queued" for a task of the second revision, whose messages the queue holds.
\* file is the upload at req.file.path and messages the array read from it;
\* lines[i] is what became of messages[i]: "sent" once the transport accepted
\* it, "dropped" once the code gave it up, "no" before; deleteCalls counts
\* the calls of safeDeleteFile(filePath).
NewTask(taskId, sid, so, owner, file, delaySec, usingQueue) ==
    [taskId |-> taskId, sessionId |-> sid, ownerId |-> owner,
     isSending |-> TRUE, stopRequested |-> FALSE,
     file |-> file, messages |-> ReadMessages(file),
     totalMessages |-> Len(ReadMessages(file)), sentMessages |-> 0,
     endTime |-> NoTime, completed |-> "unset", error |-> "none",
     reconnectAttempts |-> 0, usingQueue |-> usingQueue, delaySec |-> delaySec,
     pc |-> IF usingQueue THEN "queued" ELSE "loop",
     index |-> 0, sendAttempts |-> 0, messageSent |-> FALSE, chunk |-> 0,
     waClient |-> 0, sess |-> so, evict |-> FALSE,
     lines |-> [i \in 1..Len(ReadMessages(file)) |-> "no"], deleteCalls |-> 0,
     target |-> Phone, targetType |-> "individual"]

\* a handler or loop that leaves the file behind
KeepFile(t) == t

\* safeDeleteFile(filePath) for the file of request or task t
safeDeleteFile(t) == [t EXCEPT !.deleteCalls = @ + 1]

\* a handler that answers without an entry in the registry
activeTasksKept(reg, taskId, o) == reg

\* `activeTasks.set(taskId, taskInfo)`, on the registry reg
activeTasksSet(reg, taskId, o) == [reg EXCEPT ![taskId] = o]

\* line m = <<o, i>> is settled as d
Settled(ts, m, d) == [ts EXCEPT ![m[1]].lines[m[2]] = d]

\* the handler without its `messages.length === 0` check
SendMessageStatusAnyFile(sid, userId, hasTarget, n) ==
    LET so == activeClients[sid]
    IN  IF so = 0 THEN 400
        ELSE IF userId # NoUser /\ sessions[so].ownerId # userId THEN 403
        ELSE IF ~sessions[so].registered \/ sessions[so].isConnecting THEN 400
        ELSE IF ~hasTarget THEN 400
        ELSE 200

\* The answer of POST /send-message (second revision) to a request for session
\* sid from userId, with or without a target, whose file holds n non-empty lines
SendMessageStatus(sid, userId, hasTarget, n) ==
    LET so == activeClients[sid]
    IN  IF so = 0 THEN 400
        ELSE IF userId # NoUser /\ sessions[so].ownerId # userId THEN 403
        ELSE IF ~sessions[so].registered \/ sessions[so].isConnecting THEN 400
        ELSE IF ~hasTarget THEN 400
        ELSE IF n = 0 THEN 400
        ELSE 200

\* the jobs messages.forEach pushes: line i of task object o, in file order
Jobs(o, n, delaySec, recipient) ==
    [i \in 1..n |-> [text |-> <<o, i>>, taskId |-> now', delayMs |-> delaySec * 1000,
                     recipient |-> recipient]]

\* POST /send-message, second revision
SendMessageQueuedTo(sid, userId, target, targetType, file, delaySec, tick) ==
    LET so == activeClients[sid]
        n == Len(ReadMessages(file))
        o == Len(tasks) + 1
        owner == IF userId # NoUser THEN userId ELSE sessions[so].ownerId
        qi == IF messageQueues[sid] # 0 THEN messageQueues[sid] ELSE Len(queues) + 1
        qs == IF messageQueues[sid] # 0 THEN queues ELSE Append(queues, NewQueue)
        ps == IF messageQueues[sid] # 0 THEN proc ELSE Append(proc, IdleProc)
        pushed == [qs[qi] EXCEPT !.messages = @ \o Jobs(o, n, delaySec,
                                                          Resolve(targetType, target))]
        r == processMessageQueue(pushed, ps[qi], so, sessions)
    IN  /\ SendMessageStatus(sid, userId, target # <<>>, n) = 200
        /\ Len(tasks) < MaxTasks
        /\ now' = ReadClock(tick)
        /\ tasks' = Append(tasks,
              [safeDeleteFile(NewTask(now', sid, so, owner, file, delaySec, TRUE))
                  EXCEPT !.target = target, !.targetType = targetType])
        /\ activeTasks' = activeTasksSet(activeTasks, now', o)
        /\ messageQueues' = [messageQueues EXCEPT ![sid] = qi]
        /\ queues' = [qs EXCEPT ![qi] = r.q]
        /\ proc' = [ps EXCEPT ![qi] = r.p]
        /\ UNCHANGED <<creds, activeClients, sessions, socks>>

\* the same request with a phone number as the target of an individual chat
SendMessageQueued(sid, userId, file, delaySec, tick) ==
    SendMessageQueuedTo(sid, userId, Phone, "individual", file, delaySec, tick)

\* the `error` of that answer
SendMessageError(sid, userId, hasTarget, n) ==
    LET so == activeClients[sid]
    IN  IF so = 0 THEN "Invalid or inactive sessionId"
        ELSE IF userId # NoUser /\ sessions[so].ownerId # userId THEN "Access denied"
        ELSE IF ~sessions[so].registered \/ sessions[so].isConnecting
             THEN "Session not ready"
        ELSE IF ~hasTarget THEN "No target specified"
        ELSE IF n = 0 THEN "Invalid message file"
        ELSE "none"

\* POST /send-message, second revision, answered with an error: the request's
\* locals stay behind with the error of the answer, no taskInfo is made
SendMessageRefused(sid, userId, hasTarget, file, delaySec) ==
    LET so == activeClients[sid]
        n == Len(ReadMessages(file))
        req == [safeDeleteFile(NewTask(NoTime, sid, so, userId, file, delaySec, TRUE))
                   EXCEPT !.isSending = FALSE, !.pc = "rejected",
                          !.error = SendMessageError(sid, userId, hasTarget, n)]
    IN  /\ SendMessageStatus(sid, userId, hasTarget, n) # 200
        /\ Len(tasks) < MaxTasks
        /\ tasks' = Append(tasks, req)
        /\ UNCHANGED <<now, creds, activeClients, sessions, socks, messageQueues,
                       queues, proc, activeTasks>>

\* `task.sentMessages++` for the job's taskId, if activeTasks still has it
CountSent(ts, taskId) ==
    IF activeTasks[taskId] # 0
    THEN [ts EXCEPT ![activeTasks[taskId]].sentMessages = @ + 1]
    ELSE ts

\* the catch block gives the job in hand up when the retries are used up
GivenUp(ts, queue, p) ==
    IF queue.retryCount + 1 >= maxRetries THEN Settled(ts, p.job.text, "dropped") ELSE ts

\* sendMessage on socket h can resolve only while the socket is open
CanSend(h, outcome) == outcome = "ok" => socks[h].state = "open"

\* the catch block throws on `sendErr.message` before it counts anything:
\* the call of processMessageQueue ends with that TypeError, which nothing
\* catches, and leaves the queue as it is, isProcessing included
SendCrashed(queue, p) == [q |-> queue, p |-> [p EXCEPT !.pc = "dead"]]

\* `await sessionInfo.client.sendMessage(...)` returns or throws
QueueSendDone(q, outcome) ==
    LET p == proc[q]
        ss == IF outcome = "ok"
              THEN [sessions EXCEPT ![p.sess].fresh = TRUE] ELSE sessions
        r == CASE outcome = "ok" ->
                    AfterTurn([queues[q] EXCEPT !.messages = Shift(@), !.retryCount = 0],
                              p, ss)
             [] outcome = Crash -> SendCrashed(queues[q], p)
             [] OTHER -> SendFailed(queues[q], p, ss)
    IN  /\ p.pc = "sending"
        /\ CanSend(p.sock, outcome)
        /\ sessions' = ss
        /\ queues' = [queues EXCEPT ![q] = r.q]
        /\ proc' = [proc EXCEPT ![q] = r.p]
        /\ tasks' = CASE outcome = "ok" ->
                          Settled(CountSent(tasks, p.job.taskId), p.job.text, "sent")
                    [] outcome = Crash -> tasks
                    [] OTHER -> GivenUp(tasks, queues[q], p)
        /\ UNCHANGED <<now, creds, activeClients, socks, messageQueues, activeTasks>>

\* `await initializeWhatsAppSession(sessionInfo, true)` of the health check
\* returns (ok) or throws into the loop's catch block
QueueReinitDone(q, ok) ==
    LET p == proc[q]
        h == Len(socks) + 1
        ss == [sessions EXCEPT ![p.sess] =
                  IF ok THEN SocketCreated(@, h, TRUE)
                  ELSE [@ EXCEPT !.isConnecting = FALSE]]
        r == IF ok THEN [q |-> queues[q], p |-> [p EXCEPT !.pc = "recon_wait"]]
             ELSE SendFailed(queues[q], p, ss)
    IN  /\ p.pc = "reinit"
        /\ ok => Len(socks) < MaxSocks
        /\ socks' = IF ok THEN Append(socks, NewSock(p.sess, "v2")) ELSE socks
        /\ sessions' = ss
        /\ queues' = [queues EXCEPT ![q] = r.q]
        /\ proc' = [proc EXCEPT ![q] = r.p]
        /\ tasks' = IF ok THEN tasks ELSE GivenUp(tasks, queues[q], p)
        /\ UNCHANGED <<now, creds, activeClients, messageQueues, activeTasks>>

\* one of the loop's delays ends: delay(3000) after the reconnect, delay(2000)
\* before a retry, delay(messageJob.delayMs) between messages
QueueWaitDone(q) ==
    LET p == proc[q]
        r == CASE p.pc = "recon_wait" ->
                    [q |-> queues[q],
                     p |-> [p EXCEPT !.pc = "sending", !.sock = sessions[p.sess].client]]
             [] p.pc = "retry_wait" -> AfterTurn(queues[q], p, sessions)
             [] OTHER -> LoopHead(queues[q], p, sessions)
    IN  /\ p.pc \in {"recon_wait", "retry_wait", "delay"}
        /\ queues' = [queues EXCEPT ![q] = r.q]
        /\ proc' = [proc EXCEPT ![q] = r.p]
        /\ UNCHANGED <<now, creds, activeClients, sessions, socks, messageQueues,
                       activeTasks, tasks>>

\* ------------------------------------------------- /task-status, /stop-task
\* GET /task-status?taskId=..&userId=..: the handler reads taskId only
TaskStatus(taskId, userId) ==
    IF activeTasks[taskId] = 0 THEN [code |-> 404]
    ELSE LET task == tasks[activeTasks[taskId]]
         IN  [code |-> 200,
              status |-> IF task.isSending
                         THEN (IF task.stopRequested THEN "stopping" ELSE "sending")
                         ELSE "completed",
              sent |-> task.sentMessages, total |-> task.totalMessages,
              end |-> task.endTime]

\* The answer of POST /stop-task
StopTaskStatus(taskId, userId) ==
    IF userId = NoUser THEN 400
    ELSE IF activeTasks[taskId] = 0 THEN 404
    ELSE IF tasks[activeTasks[taskId]].ownerId # userId THEN 403
    ELSE 200

\* a stop-task that leaves the queue as it is
WithTask(msgs, taskId) == msgs

\* queue.messages.filter(msg => msg.taskId !== taskId)
RECURSIVE WithoutTask(_, _)
WithoutTask(msgs, taskId) ==
    IF msgs = <<>> THEN <<>>
    ELSE IF Head(msgs).taskId = taskId THEN WithoutTask(Tail(msgs), taskId)
    ELSE <<Head(msgs)>> \o WithoutTask(Tail(msgs), taskId)

\* POST /stop-task
StopTask(taskId, userId, tick) ==
    LET o == activeTasks[taskId]
        qi == messageQueues[tasks[o].sessionId]
    IN  /\ StopTaskStatus(taskId, userId) = 200
        /\ now' = ReadClock(tick)
        /\ tasks' = [tasks EXCEPT ![o].stopRequested = TRUE,
                                  ![o].isSending = FALSE,
                                  ![o].endTime = now']
        /\ queues' = IF qi # 0
                     THEN [queues EXCEPT ![qi].messages = WithoutTask(@, taskId)]
                     ELSE queues
        /\ UNCHANGED <<creds, activeClients, sessions, socks, messageQueues,
                       proc, activeTasks>>

\* The answer of POST /delete-session
DeleteSessionStatus(sid, userId) ==
    IF userId = NoUser THEN 400
    ELSE IF activeClients[sid] = 0 THEN 404
    ELSE IF sessions[activeClients[sid]].ownerId # userId THEN 403
    ELSE 200

\* POST /delete-session.  client.end() leaves the socket "ended": it sends
\* nothing any more and its close event is still to be delivered.
DeleteSession(sid, userId) ==
    LET so == activeClients[sid]
        h == sessions[so].client
    IN  /\ DeleteSessionStatus(sid, userId) = 200
        /\ sessions' = [sessions EXCEPT ![so].forceReconnect = FALSE,
                                        ![so].keepAlive = FALSE]
        /\ tasks' = [o \in DOMAIN tasks |->
              IF (\E id \in TaskIds : activeTasks[id] = o)
                 /\ tasks[o].sessionId = sid
              THEN [tasks[o] EXCEPT !.stopRequested = TRUE, !.isSending = FALSE]
              ELSE tasks[o]]
        /\ messageQueues' = [messageQueues EXCEPT ![sid] = 0]
        /\ socks' = IF h # 0 /\ socks[h].state \in {"connecting", "open"}
                    THEN [socks EXCEPT ![h].state = "ended"] ELSE socks
        /\ creds' = [creds EXCEPT ![sid] = FALSE]
        /\ activeClients' = [activeClients EXCEPT ![sid] = 0]
        /\ UNCHANGED <<now, queues, proc, activeTasks>>

\* ------------------------------------- /send-message with the inline loop
\* Math.ceil(parseFloat(delaySec) * 1000 / 1000), for a whole number of seconds
Chunks(delaySec) == delaySec

\* the finally block of the loop, entered when the clock shows tm
Finally(t, tm) ==
    [safeDeleteFile(t) EXCEPT !.endTime = tm, !.isSending = FALSE,
              !.completed = IF t.stopRequested THEN "false" ELSE "true",
              !.pc = "done", !.evict = TRUE]

\* The loop from a point between two awaits to the next await, as a function
\* of the taskInfo and locals t, the sessionInfo s and the clock tm.
RECURSIVE WhileHead(_, _, _), Caught(_, _, _), AfterWhile(_, _, _), NextIndex(_, _, _)

\* `await waClient.sendMessage(recipient, { text: msg })`: a null waClient
\* throws at once into the catch block
IssueSend(t, s, tm) ==
    IF t.waClient = 0 THEN Caught(t, s, tm)
    ELSE [t EXCEPT !.pc = "sending"]

\* `while (!messageSent && sendAttempts < maxSendAttempts && !stopRequested)`
WhileHead(t, s, tm) ==
    IF ~t.messageSent /\ t.sendAttempts < maxSendAttempts /\ ~t.stopRequested
    THEN IF s.client = 0 \/ ~s.registered \/ s.isConnecting
         THEN LET t1 == [t EXCEPT !.reconnectAttempts = @ + 1]
              IN  IF t1.reconnectAttempts > maxReconnectAttempts
                  THEN AfterWhile([t1 EXCEPT !.error = "Max reconnection attempts reached"],
                                  s, tm)
                  ELSE IF s.client = 0 \/ ~s.registered
                       THEN [t1 EXCEPT !.pc = "ens_init"]
                       ELSE IssueSend([t1 EXCEPT !.waClient = s.client], s, tm)
         ELSE IssueSend(t, s, tm)
    ELSE AfterWhile(t, s, tm)

\* `catch (sendErr)`, after the session flags are cleared for a closed
\* connection: wait before the retry unless the attempts are used up
Caught(t, s, tm) ==
    LET t1 == [t EXCEPT !.sendAttempts = @ + 1]
    IN  IF t1.sendAttempts < maxSendAttempts
        THEN [t1 EXCEPT !.pc = "err_wait"]
        ELSE WhileHead(t1, s, tm)

\* after the while loop: count the unsent message as attempted, then the
\* chunked delay
AfterWhile(t, s, tm) ==
    LET t1 == IF ~t.messageSent /\ ~t.stopRequested
              THEN [t EXCEPT !.error = "Failed to send message after 3 attempts",
                             !.sentMessages = @ + 1,
                             !.lines[t.index + 1] = "dropped"]
              ELSE t
    IN  IF ~t1.stopRequested /\ t1.index < t1.totalMessages - 1
           /\ Chunks(t1.delaySec) > 0
        THEN [t1 EXCEPT !.pc = "delay", !.chunk = 0]
        ELSE NextIndex(t1, s, tm)

\* `if (taskInfo.stopRequested) break;`, index++ and the for condition
NextIndex(t, s, tm) ==
    IF ~t.stopRequested /\ t.index + 1 < t.totalMessages
    THEN WhileHead([t EXCEPT !.index = @ + 1, !.messageSent = FALSE,
                             !.sendAttempts = 0], s, tm)
    ELSE Finally(t, tm)

\* the handler from `ensureSessionConnected` returning true to the loop's
\* first await: validation, taskInfo, activeTasks.set, res.json, loop start
StartTask(t, s, tm) ==
    WhileHead([t EXCEPT !.taskId = tm, !.isSending = TRUE, !.pc = "loop",
                        !.waClient = s.client], s, tm)

\* ensureSessionConnected returns r to the handler (pc "h_...") or the loop
EnsureReturned(t, r, s, tm) ==
    IF t.pc \in {"h_init", "h_wait"}
    THEN IF r /\ t.target # <<>> /\ t.totalMessages > 0 THEN StartTask(t, s, tm)
         ELSE [safeDeleteFile(t) EXCEPT !.pc = "rejected",
                        !.error = IF ~r THEN "Session not connected"
                                  ELSE IF t.target = <<>> THEN "Missing required fields"
                                  ELSE "Invalid message file"]
    ELSE IF r THEN IssueSend([t EXCEPT !.waClient = s.client], s, tm)
         ELSE [t EXCEPT !.pc = "retry_wait"]

\* The answer of POST /send-message (first revision) before its await
SendMessageInlineStatus(sid, userId) ==
    LET so == activeClients[sid]
    IN  IF so = 0 THEN 400
        ELSE IF userId # NoUser /\ sessions[so].ownerId # userId THEN 403
        ELSE 200

\* POST /send-message, first revision, for a request with a targetType, a
\* delaySec and an uploaded file: up to the first await of the handler or of
\* the loop
SendMessageInlineTo(sid, userId, target, targetType, file, delaySec, tick) ==
    LET so == activeClients[sid]
        s == sessions[so]
        o == Len(tasks) + 1
        tm == ReadClock(tick)
        owner == IF userId # NoUser THEN userId ELSE s.ownerId
        req == [NewTask(NoTime, sid, so, owner, file, delaySec, FALSE) EXCEPT
                    !.isSending = FALSE, !.target = target, !.targetType = targetType]
        connected == s.client # 0 /\ s.registered
        t2 == IF connected THEN EnsureReturned([req EXCEPT !.pc = "h_init"], TRUE, s, tm)
              ELSE [req EXCEPT !.pc = "h_init"]
        started == connected /\ t2.pc # "rejected"
    IN  /\ SendMessageInlineStatus(sid, userId) = 200
        /\ Len(tasks) < MaxTasks
        /\ tasks' = Append(tasks, t2)
        /\ activeTasks' = IF started THEN activeTasksSet(activeTasks, tm, o)
                          ELSE activeTasks
        /\ now' = IF started THEN tm ELSE now
        /\ UNCHANGED <<creds, activeClients, sessions, socks, messageQueues,
                       queues, proc>>

\* the same request with a phone number as the target of an individual chat
SendMessageInline(sid, userId, file, delaySec, tick) ==
    SendMessageInlineTo(sid, userId, Phone, "individual", file, delaySec, tick)

\* what an inline step leaves in the registry and on the clock
InlineStepDone(o, t2, tm) ==
    /\ tasks' = [tasks EXCEPT ![o] = t2]
    /\ activeTasks' = IF tasks[o].pc \in {"h_init", "h_wait"} /\ t2.pc # "rejected"
                         /\ t2.pc # "h_wait"
                      THEN activeTasksSet(activeTasks, tm, o) ELSE activeTasks
    /\ now' = IF t2.pc = "done" \/ (tasks[o].taskId = NoTime /\ t2.taskId # NoTime)
              THEN tm ELSE now

\* `await initializeClient(sessionId, sessionInfo)` inside
\* ensureSessionConnected returns, with a socket (ok) or from its catch block
EnsureInitDone(o, ok, tick) ==
    LET t == tasks[o]
        h == Len(socks) + 1
        tm == ReadClock(tick)
        s == IF ok THEN [sessions[t.sess] EXCEPT !.client = h, !.isConnecting = TRUE]
             ELSE InitClientFailed(sessions[t.sess])
        t2 == IF s.registered /\ ~s.isConnecting
              THEN EnsureReturned(t, TRUE, s, tm)
              ELSE [t EXCEPT !.pc = IF t.pc = "h_init" THEN "h_wait" ELSE "ens_wait"]
    IN  /\ t.pc \in {"h_init", "ens_init"}
        /\ ok => Len(socks) < MaxSocks
        /\ socks' = IF ok THEN Append(socks, NewSock(t.sess, "v1")) ELSE socks
        /\ sessions' = [sessions EXCEPT ![t.sess] = s]
        /\ InlineStepDone(o, t2, tm)
        /\ UNCHANGED <<creds, activeClients, messageQueues, queues, proc>>

\* the polling loop of ensureSessionConnected ends: the session is connected,
\* or 30 polls have passed
EnsureWaitDone(o, tick) ==
    LET t == tasks[o]
        s == sessions[t.sess]
        tm == ReadClock(tick)
    IN  /\ t.pc \in {"h_wait", "ens_wait"}
        /\ InlineStepDone(o, EnsureReturned(t, s.registered /\ ~s.isConnecting, s, tm), tm)
        /\ UNCHANGED <<creds, activeClients, sessions, socks, messageQueues,
                       queues, proc>>

\* `await waClient.sendMessage(...)` of the loop returns or throws
InlineSendDone(o, outcome, tick) ==
    LET t == tasks[o]
        tm == ReadClock(tick)
        ss == IF outcome = "closed"
              THEN [sessions EXCEPT ![t.sess].registered = FALSE,
                                    ![t.sess].isConnecting = FALSE]
              ELSE sessions
        t2 == CASE outcome = "ok" ->
                    WhileHead([t EXCEPT !.sentMessages = @ + 1, !.messageSent = TRUE,
                                        !.reconnectAttempts = 0,
                                        !.lines[t.index + 1] = "sent"],
                              ss[t.sess], tm)
              [] outcome = Crash -> Finally([t EXCEPT !.error = "TypeError"], tm)
              [] OTHER -> Caught(t, ss[t.sess], tm)
    IN  /\ t.pc = "sending"
        /\ CanSend(t.waClient, outcome)
        /\ sessions' = ss
        /\ InlineStepDone(o, t2, tm)
        /\ UNCHANGED <<creds, activeClients, socks, messageQueues, queues, proc>>

\* one of the loop's delays ends: delay(3000)/delay(10000) of the catch block,
\* delay(5000) after a failed reconnect, one chunk of the delay between messages
InlineWaitDone(o, tick) ==
    LET t == tasks[o]
        s == sessions[t.sess]
        tm == ReadClock(tick)
        t2 == CASE t.pc = "err_wait" -> WhileHead(t, s, tm)
              [] t.pc = "retry_wait" ->
                    WhileHead([t EXCEPT !.sendAttempts = @ + 1], s, tm)
              [] OTHER ->
                    IF t.chunk + 1 < Chunks(t.delaySec) /\ ~t.stopRequested
                    THEN [t EXCEPT !.chunk = @ + 1]
                    ELSE NextIndex(t, s, tm)
    IN  /\ t.pc \in {"err_wait", "retry_wait", "delay"}
        /\ InlineStepDone(o, t2, tm)
        /\ UNCHANGED <<creds, activeClients, sessions, socks, messageQueues,
                       queues, proc>>

\* the setTimeout of the finally block fires after 30 minutes
Evict(o) ==
    LET id == tasks[o].taskId
    IN  /\ tasks[o].evict
        /\ tasks' = [tasks EXCEPT ![o].evict = FALSE]
        /\ activeTasks' = [activeTasks EXCEPT ![id] = 0]
        /\ UNCHANGED <<now, creds, activeClients, sessions, socks, messageQueues,
                       queues, proc>>

\* ------------------------------------------------------- specifications
\* Every callback of both revisions.
Next ==
    \/ \E n \in Numbers, u \in Pairers : Code(n, u)
    \/ \E so \in DOMAIN sessions : SettleCode(so)
    \/ \E so \in DOMAIN sessions, first \in BOOLEAN, ok \in BOOLEAN :
          InitSessionDone(so, first, ok)
    \/ \E so \in DOMAIN sessions, ok \in BOOLEAN : InitClientDone(so, ok)
    \/ \E h \in DOMAIN socks : SockOpen(h)
    \/ \E h \in DOMAIN socks, reason \in CloseReasons : SockClose(h, reason)
    \/ \E so \in DOMAIN sessions : ActivityStale(so)
    \/ \E so \in DOMAIN sessions : KeepAlive(so)
    \/ \E so \in DOMAIN sessions : HealthCheck(so)
    \/ \E so \in DOMAIN sessions : AutoReconnect(so)
    \/ \E so \in DOMAIN sessions : ReconnectTimer(so)
    \/ \E so \in DOMAIN sessions : RetryTimerV1(so)
    \/ \E sid \in SessionIds, u \in Users \cup {NoUser}, target \in Targets,
          targetType \in TargetTypes, file \in Files,
          d \in SubmittedDelays, tick \in BOOLEAN :
          SendMessageQueuedTo(sid, u, target, targetType, file, d, tick)
    \/ \E sid \in SessionIds, u \in Users \cup {NoUser}, hasTarget \in BOOLEAN,
          file \in Files, d \in SubmittedDelays :
          SendMessageRefused(sid, u, hasTarget, file, d)
    \/ \E q \in DOMAIN queues, outcome \in SendOutcomes \cup {Crash} :
          QueueSendDone(q, outcome)
    \/ \E q \in DOMAIN queues, ok \in BOOLEAN : QueueReinitDone(q, ok)
    \/ \E q \in DOMAIN queues : QueueWaitDone(q)
    \/ \E sid \in SessionIds, u \in Users \cup {NoUser}, target \in Targets,
          targetType \in TargetTypes, file \in Files,
          d \in SubmittedDelays, tick \in BOOLEAN :
          SendMessageInlineTo(sid, u, target, targetType, file, d, tick)
    \/ \E o \in DOMAIN tasks, ok \in BOOLEAN, tick \in BOOLEAN :
          EnsureInitDone(o, ok, tick)
    \/ \E o \in DOMAIN tasks, tick \in BOOLEAN : EnsureWaitDone(o, tick)
    \/ \E o \in DOMAIN tasks, outcome \in SendOutcomes \cup {Crash}, tick \in BOOLEAN :
          InlineSendDone(o, outcome, tick)
    \/ \E o \in DOMAIN tasks, tick \in BOOLEAN : InlineWaitDone(o, tick)
    \/ \E o \in DOMAIN tasks : Evict(o)
    \/ \E id \in TaskIds, u \in Users, tick \in BOOLEAN : StopTask(id, u, tick)
    \/ \E sid \in SessionIds, u \in Users : DeleteSession(sid, u)

Spec == Init /\ [][Next]_vars

\* The second revision on a connection that stays up: pairing, submissions to
\* the queue, the queue's processor, stop-task and delete-session.
NextQueue ==
    \/ \E n \in Numbers, u \in Pairers : Code(n, u)
    \/ \E so \in DOMAIN sessions : SettleCode(so)
    \/ \E so \in DOMAIN sessions, ok \in BOOLEAN : InitSessionDone(so, TRUE, ok)
    \/ \E h \in DOMAIN socks : SockOpen(h)
    \/ \E sid \in SessionIds, u \in Users \cup {NoUser}, n \in 1..MaxMsgs,
          d \in Delays, tick \in BOOLEAN : SendMessageQueued(sid, u, PlainFile(n), d, tick)
    \/ \E q \in DOMAIN queues, outcome \in SendOutcomes : QueueSendDone(q, outcome)
    \/ \E q \in DOMAIN queues : QueueWaitDone(q)
    \/ \E id \in TaskIds, u \in Users, tick \in BOOLEAN : StopTask(id, u, tick)
    \/ \E sid \in SessionIds, u \in Users : DeleteSession(sid, u)

SpecQueue == Init /\ [][NextQueue]_vars

\* The second revision's queue on an event loop that runs every
\* continuation that is due: each transport call returns or throws, with an
\* Error or with a value that has no message, and each delay ends.
NextDrain ==
    \/ \E n \in Numbers, u \in Pairers : Code(n, u)
    \/ \E so \in DOMAIN sessions : InitSessionDone(so, TRUE, TRUE)
    \/ \E h \in DOMAIN socks : SockOpen(h)
    \/ \E sid \in SessionIds, u \in Pairers, n \in 1..MaxMsgs,
          d \in Delays, tick \in BOOLEAN : SendMessageQueued(sid, u, PlainFile(n), d, tick)
    \/ \E q \in DOMAIN queues, outcome \in {"ok", "other", Crash} :
          QueueSendDone(q, outcome)
    \/ \E q \in DOMAIN queues : QueueWaitDone(q)
    \/ \E id \in TaskIds, u \in Pairers, tick \in BOOLEAN : StopTask(id, u, tick)
    \/ \E sid \in SessionIds, u \in Pairers : DeleteSession(sid, u)

QueueStep ==
    \E q \in DOMAIN queues :
        \/ \E outcome \in {"ok", "other", Crash} : QueueSendDone(q, outcome)
        \/ QueueWaitDone(q)

SpecDrain == Init /\ [][NextDrain]_vars /\ WF_vars(QueueStep)

\* The first revision's /send-message with its inline loop, on a session the
\* second revision's /code paired, with stop-task and delete-session.
NextInline ==
    \/ \E n \in Numbers, u \in Pairers : Code(n, u)
    \/ \E so \in DOMAIN sessions : SettleCode(so)
    \/ \E so \in DOMAIN sessions, ok \in BOOLEAN : InitSessionDone(so, TRUE, ok)
    \/ \E h \in DOMAIN socks : SockOpen(h)
    \/ \E sid \in SessionIds, u \in Users \cup {NoUser}, n \in 1..MaxMsgs,
          d \in Delays, tick \in BOOLEAN :
          Len(tasks) < MaxInline /\ SendMessageInline(sid, u, PlainFile(n), d, tick)
    \/ \E o \in DOMAIN tasks, ok \in BOOLEAN, tick \in BOOLEAN :
          (ok => Len(socks) < FewSocks) /\ EnsureInitDone(o, ok, tick)
    \/ \E o \in DOMAIN tasks, tick \in BOOLEAN : EnsureWaitDone(o, tick)
    \/ \E o \in DOMAIN tasks, outcome \in SendOutcomes, tick \in BOOLEAN :
          InlineSendDone(o, outcome, tick)
    \/ \E o \in DOMAIN tasks, tick \in BOOLEAN : InlineWaitDone(o, tick)
    \/ \E o \in DOMAIN tasks : Evict(o)
    \/ \E id \in TaskIds, u \in Users, tick \in BOOLEAN : StopTask(id, u, tick)
    \/ \E sid \in SessionIds, u \in Users : DeleteSession(sid, u)

SpecInline == Init /\ [][NextInline]_vars

\* The second revision's connection alone: pairing, the socket's open and
\* close events and the close handler's reconnect timer.
NextReconnect ==
    \/ \E n \in Numbers, u \in Pairers : Code(n, u)
    \/ \E so \in DOMAIN sessions : SettleCode(so)
    \/ \E so \in DOMAIN sessions, first \in BOOLEAN, ok \in BOOLEAN :
          InitSessionDone(so, first, ok)
    \/ \E h \in DOMAIN socks : SockOpen(h)
    \/ \E h \in DOMAIN socks, reason \in CloseReasons : SockClose(h, reason)
    \/ \E so \in DOMAIN sessions : ReconnectTimer(so)

SpecReconnect == Init /\ [][NextReconnect]_vars

\* The first revision's loop on a connection that goes down: one submission
\* of up to MaxOutageMsgs lines, sends that fail, reconnects that fail.
NextOutage ==
    \/ \E n \in Numbers, u \in Pairers : Code(n, u)
    \/ \E so \in DOMAIN sessions, ok \in BOOLEAN : InitSessionDone(so, TRUE, ok)
    \/ \E h \in DOMAIN socks : SockOpen(h)
    \/ \E sid \in SessionIds, u \in Pairers, n \in 1..MaxOutageMsgs,
          d \in Delays, tick \in BOOLEAN :
          Len(tasks) < MaxInline /\ SendMessageInline(sid, u, PlainFile(n), d, tick)
    \/ \E o \in DOMAIN tasks, ok \in BOOLEAN, tick \in BOOLEAN :
          (ok => Len(socks) < FewSocks) /\ EnsureInitDone(o, ok, tick)
    \/ \E o \in DOMAIN tasks, tick \in BOOLEAN : EnsureWaitDone(o, tick)
    \/ \E o \in DOMAIN tasks, outcome \in SendOutcomes, tick \in BOOLEAN :
          InlineSendDone(o, outcome, tick)
    \/ \E o \in DOMAIN tasks, tick \in BOOLEAN : InlineWaitDone(o, tick)

SpecOutage == Init /\ [][NextOutage]_vars

\* The first revision with several submissions on a transport that accepts
\* every send.
NextInlinePair ==
    \/ \E n \in Numbers, u \in Pairers : Code(n, u)
    \/ \E so \in DOMAIN sessions, ok \in BOOLEAN : InitSessionDone(so, TRUE, ok)
    \/ \E h \in DOMAIN socks : SockOpen(h)
    \/ \E sid \in SessionIds, u \in Pairers, n \in 1..MaxMsgs,
          d \in Delays, tick \in BOOLEAN : SendMessageInline(sid, u, PlainFile(n), d, tick)
    \/ \E o \in DOMAIN tasks, ok \in BOOLEAN, tick \in BOOLEAN :
          (ok => Len(socks) < FewSocks) /\ EnsureInitDone(o, ok, tick)
    \/ \E o \in DOMAIN tasks, tick \in BOOLEAN : EnsureWaitDone(o, tick)
    \/ \E o \in DOMAIN tasks, tick \in BOOLEAN : InlineSendDone(o, "ok", tick)
    \/ \E o \in DOMAIN tasks, tick \in BOOLEAN : InlineWaitDone(o, tick)

SpecInlinePair == Init /\ [][NextInlinePair]_vars

\* The second revision with its connection events and timers and one
\* submission to the queue.
NextNet ==
    \/ \E n \in Numbers, u \in Pairers : Code(n, u)
    \/ \E so \in DOMAIN sessions : SettleCode(so)
    \/ \E so \in DOMAIN sessions, first \in BOOLEAN, ok \in BOOLEAN :
          (ok => Len(socks) < FewSocks) /\ InitSessionDone(so, first, ok)
    \/ \E h \in DOMAIN socks : SockOpen(h)
    \/ \E h \in DOMAIN socks, reason \in CloseReasons : SockClose(h, reason)
    \/ \E so \in DOMAIN sessions : ActivityStale(so)
    \/ \E so \in DOMAIN sessions : KeepAlive(so)
    \/ \E so \in DOMAIN sessions : HealthCheck(so)
    \/ \E so \in DOMAIN sessions : AutoReconnect(so)
    \/ \E so \in DOMAIN sessions : ReconnectTimer(so)
    \/ \E sid \in SessionIds, u \in Pairers, n \in 1..MaxMsgs,
          d \in Delays, tick \in BOOLEAN :
          Len(tasks) = 0 /\ SendMessageQueued(sid, u, PlainFile(n), d, tick)
    \/ \E q \in DOMAIN queues, outcome \in SendOutcomes : QueueSendDone(q, outcome)
    \/ \E q \in DOMAIN queues, ok \in BOOLEAN :
          (ok => Len(socks) < FewSocks) /\ QueueReinitDone(q, ok)
    \/ \E q \in DOMAIN queues : QueueWaitDone(q)

SpecNet == Init /\ [][NextNet]_vars

\* Submissions to both revisions of POST /send-message with every form and
\* every file of at most one line of at most one character, on a transport
\* that accepts every send.
NextSubmit ==
    \/ \E n \in Numbers, u \in Pairers : Code(n, u)
    \/ \E so \in DOMAIN sessions :
          Len(socks) < FewSocks /\ InitSessionDone(so, TRUE, TRUE)
    \/ \E h \in DOMAIN socks : SockOpen(h)
    \/ \E sid \in SessionIds, u \in Pairers, file \in ShortFiles,
          d \in SubmittedDelays, tick \in BOOLEAN :
          SendMessageQueued(sid, u, file, d, tick)
    \/ \E sid \in SessionIds, u \in Pairers, hasTarget \in BOOLEAN, file \in ShortFiles,
          d \in SubmittedDelays :
          SendMessageRefused(sid, u, hasTarget, file, d)
    \/ \E sid \in SessionIds, u \in Pairers, file \in ShortFiles,
          d \in SubmittedDelays, tick \in BOOLEAN :
          SendMessageInline(sid, u, file, d, tick)
    \/ \E q \in DOMAIN queues : QueueSendDone(q, "ok")
    \/ \E q \in DOMAIN queues : QueueWaitDone(q)
    \/ \E o \in DOMAIN tasks, ok \in BOOLEAN, tick \in BOOLEAN :
          (ok => Len(socks) < FewSocks) /\ EnsureInitDone(o, ok, tick)
    \/ \E o \in DOMAIN tasks, tick \in BOOLEAN : EnsureWaitDone(o, tick)
    \/ \E o \in DOMAIN tasks, tick \in BOOLEAN : InlineSendDone(o, "ok", tick)

SpecSubmit == Init /\ [][NextSubmit]_vars

\* One submission of any file to either revision, on a connection that stays
\* up and whose sends succeed or fail for another reason than the connection.
NextFile ==
    \/ \E n \in Numbers, u \in Pairers : Code(n, u)
    \/ \E so \in DOMAIN sessions :
          Len(socks) < FewSocks /\ InitSessionDone(so, TRUE, TRUE)
    \/ \E h \in DOMAIN socks : SockOpen(h)
    \/ \E sid \in SessionIds, u \in Pairers, file \in Files,
          d \in Delays, tick \in BOOLEAN :
          Len(tasks) < MaxInline /\ SendMessageQueued(sid, u, file, d, tick)
    \/ \E sid \in SessionIds, u \in Pairers, file \in Files,
          d \in Delays, tick \in BOOLEAN :
          Len(tasks) < MaxInline /\ activeClients[sid] # 0
          /\ Connected(sessions[activeClients[sid]])
          /\ SendMessageInline(sid, u, file, d, tick)
    \/ \E q \in DOMAIN queues, outcome \in {"ok", "other"} : QueueSendDone(q, outcome)
    \/ \E q \in DOMAIN queues : QueueWaitDone(q)
    \/ \E o \in DOMAIN tasks, outcome \in {"ok", "other"}, tick \in BOOLEAN :
          InlineSendDone(o, outcome, tick)
    \/ \E o \in DOMAIN tasks, tick \in BOOLEAN : InlineWaitDone(o, tick)
    \/ \E id \in TaskIds, u \in Pairers, tick \in BOOLEAN : StopTask(id, u, tick)

SpecFile == Init /\ [][NextFile]_vars

\* The first revision with one submission on a transport whose sends
\* succeed, fail or reject without an Error object.
NextCrash ==
    \/ \E n \in Numbers, u \in Pairers : Code(n, u)
    \/ \E so \in DOMAIN sessions :
          Len(socks) < FewSocks /\ InitSessionDone(so, TRUE, TRUE)
    \/ \E h \in DOMAIN socks : SockOpen(h)
    \/ \E sid \in SessionIds, u \in Pairers, n \in 1..MaxMsgs,
          d \in Delays, tick \in BOOLEAN :
          Len(tasks) < MaxInline /\ activeClients[sid] # 0
          /\ Connected(sessions[activeClients[sid]])
          /\ SendMessageInline(sid, u, PlainFile(n), d, tick)
    \/ \E o \in DOMAIN tasks, outcome \in {"ok", "other", Crash}, tick \in BOOLEAN :
          InlineSendDone(o, outcome, tick)
    \/ \E o \in DOMAIN tasks, tick \in BOOLEAN : InlineWaitDone(o, tick)
    \/ \E id \in TaskIds, u \in Pairers, tick \in BOOLEAN : StopTask(id, u, tick)

SpecCrash == Init /\ [][NextCrash]_vars

\* One submission of a one-line file to any target of either kind, in either
\* revision, on a connection that stays up.
NextResolve ==
    \/ \E n \in Numbers, u \in Pairers : Code(n, u)
    \/ \E so \in DOMAIN sessions :
          Len(socks) < FewSocks /\ InitSessionDone(so, TRUE, TRUE)
    \/ \E h \in DOMAIN socks : SockOpen(h)
    \/ \E sid \in SessionIds, u \in Pairers, target \in Targets,
          targetType \in TargetTypes, tick \in BOOLEAN :
          Len(tasks) < MaxInline
          /\ SendMessageQueuedTo(sid, u, target, targetType, PlainFile(1), 0, tick)
    \/ \E q \in DOMAIN queues : QueueSendDone(q, "ok")
    \/ \E sid \in SessionIds, u \in Pairers, target \in Targets,
          targetType \in TargetTypes, tick \in BOOLEAN :
          Len(tasks) < MaxInline /\ activeClients[sid] # 0
          /\ Connected(sessions[activeClients[sid]])
          /\ SendMessageInlineTo(sid, u, target, targetType, PlainFile(1), 0, tick)
    \/ \E o \in DOMAIN tasks, tick \in BOOLEAN : InlineSendDone(o, "ok", tick)

SpecResolve == Init /\ [][NextResolve]_vars

\* Every way one /send-message request of either revision ends: refused,
\* rejected after the connection check, or a task that completes, is
\* stopped, loses its session or crashes.
NextExit ==
    \/ \E n \in Numbers, u \in Pairers : Code(n, u)
    \/ \E so \in DOMAIN sessions :
          Len(socks) < FewSocks /\ InitSessionDone(so, TRUE, TRUE)
    \/ \E h \in DOMAIN socks : SockOpen(h)
    \/ \E sid \in SessionIds, u \in Pairers, file \in ShortFiles \cup {PlainFile(MaxMsgs)},
          d \in Delays, tick \in BOOLEAN :
          Len(tasks) < MaxInline /\ SendMessageQueued(sid, u, file, d, tick)
    \/ \E sid \in SessionIds, u \in Users, hasTarget \in BOOLEAN, file \in ShortFiles,
          d \in Delays :
          Len(tasks) < MaxInline /\ SendMessageRefused(sid, u, hasTarget, file, d)
    \/ \E sid \in SessionIds, u \in Pairers, file \in ShortFiles \cup {PlainFile(MaxMsgs)},
          d \in Delays, tick \in BOOLEAN :
          Len(tasks) < MaxInline /\ SendMessageInline(sid, u, file, d, tick)
    \/ \E o \in DOMAIN tasks, ok \in BOOLEAN, tick \in BOOLEAN :
          (ok => Len(socks) < FewSocks) /\ EnsureInitDone(o, ok, tick)
    \/ \E o \in DOMAIN tasks, tick \in BOOLEAN : EnsureWaitDone(o, tick)
    \/ \E q \in DOMAIN queues, outcome \in {"ok", "other"} : QueueSendDone(q, outcome)
    \/ \E q \in DOMAIN queues : QueueWaitDone(q)
    \/ \E o \in DOMAIN tasks, outcome \in {"ok", "other", Crash}, tick \in BOOLEAN :
          InlineSendDone(o, outcome, tick)
    \/ \E o \in DOMAIN tasks, tick \in BOOLEAN : InlineWaitDone(o, tick)
    \/ \E id \in TaskIds, u \in Pairers, tick \in BOOLEAN : StopTask(id, u, tick)
    \/ \E sid \in SessionIds, u \in Pairers : DeleteSession(sid, u)

SpecExit == Init /\ [][NextExit]_vars

\* Tasks of both revisions with a delay between their messages, on a
\* connection that stays up, and stop-task.
NextStop ==
    \/ \E n \in Numbers, u \in Pairers : Code(n, u)
    \/ \E so \in DOMAIN sessions :
          Len(socks) < FewSocks /\ InitSessionDone(so, TRUE, TRUE)
    \/ \E h \in DOMAIN socks : SockOpen(h)
    \/ \E sid \in SessionIds, u \in Pairers, n \in 1..MaxMsgs,
          d \in LongDelays, tick \in BOOLEAN :
          SendMessageQueued(sid, u, PlainFile(n), d, tick)
    \/ \E q \in DOMAIN queues, outcome \in {"ok", "other"} : QueueSendDone(q, outcome)
    \/ \E q \in DOMAIN queues : QueueWaitDone(q)
    \/ \E sid \in SessionIds, u \in Pairers, n \in 1..MaxMsgs,
          d \in LongDelays, tick \in BOOLEAN :
          activeClients[sid] # 0 /\ Connected(sessions[activeClients[sid]])
          /\ SendMessageInline(sid, u, PlainFile(n), d, tick)
    \/ \E o \in DOMAIN tasks, outcome \in {"ok", "other"}, tick \in BOOLEAN :
          InlineSendDone(o, outcome, tick)
    \/ \E o \in DOMAIN tasks, tick \in BOOLEAN : InlineWaitDone(o, tick)
    \/ \E id \in TaskIds, u \in Pairers, tick \in BOOLEAN : StopTask(id, u, tick)

SpecStop == Init /\ [][NextStop]_vars

\* ------------------------------------------------------------ task states
\* The taskInfo objects that exist: a request still inside
\* ensureSessionConnected, or rejected after it, has created none.
TaskObjects == {o \in DOMAIN tasks : tasks[o].pc \notin {"h_init", "h_wait", "rejected"}}

\* Something is still at work for task object o: its inline loop has not
\* reached the finally block, or a queue holds or is sending a job that
\* carries its taskId.
Working(o) ==
    IF tasks[o].usingQueue
    THEN \E q \in DOMAIN queues :
            \/ proc[q].pc # "idle" /\ proc[q].job.taskId = tasks[o].taskId
            \/ \E i \in DOMAIN queues[q].messages :
                  queues[q].messages[i].taskId = tasks[o].taskId
    ELSE tasks[o].pc # "done"

\* The state the code's flags stand for: /task-status tells a task that is
\* sending from one that is not, and the finally block logs STOPPED or
\* COMPLETED by stopRequested.
TaskState(t) ==
    IF t.isSending THEN (IF t.stopRequested THEN "Stopping" ELSE "Running")
    ELSE IF t.stopRequested THEN "Stopped" ELSE "Completed"

\* ----------------------------------------------------------------- claims
\* C1: for every task created by /send-message, sentMessages never exceeds
\* totalMessages.
SentNeverExceedsTotal ==
    \A o \in TaskObjects : tasks[o].sentMessages <= tasks[o].totalMessages

\* C2: a task stopped by its owner through /stop-task, once nothing is at work
\* for it any more, is reported by /task-status as stopped, not as sending or
\* completed.
StoppedTaskReportedStopped ==
    \A id \in TaskIds : activeTasks[id] # 0 =>
        LET o == activeTasks[id]
        IN  (tasks[o].stopRequested /\ activeClients[tasks[o].sessionId] # 0
             /\ ~Working(o))
            => TaskStatus(id, tasks[o].ownerId).status = "stopped"

\* C3: endTime is written once: no step gives a task whose endTime is written
\* another endTime.
EndTimeWrittenOnce ==
    [][\A o \in DOMAIN tasks :
          tasks[o].endTime # NoTime => tasks'[o].endTime = tasks[o].endTime]_vars

\* C4: a task of the queue whose messages were all delivered, with no failure
\* and no stop, and for which the queue has nothing left to do, is reported by
\* /task-status as completed with sent = total.
DeliveredTaskReportedCompleted ==
    \A id \in TaskIds : activeTasks[id] # 0 =>
        LET o == activeTasks[id]
        IN  (tasks[o].usingQueue /\ ~tasks[o].stopRequested
             /\ tasks[o].sentMessages = tasks[o].totalMessages /\ ~Working(o))
            => /\ TaskStatus(id, tasks[o].ownerId).status = "completed"
               /\ TaskStatus(id, tasks[o].ownerId).sent = tasks[o].totalMessages

\* C5: once /stop-task was accepted for a task, its sentMessages stays at the
\* value it had at the stop: a send in flight does not raise it.
StopFreezesSentCount ==
    [][\A o \in TaskObjects :
          (tasks[o].stopRequested /\ activeClients[tasks[o].sessionId] # 0)
          => tasks'[o].sentMessages = tasks[o].sentMessages]_vars

\* C6: a second /stop-task by the owner on a task of the queue that a first
\* /stop-task stopped changes no field of any task and no queue.
SecondStopChangesNothing ==
    [][\A id \in TaskIds, u \in Users, tick \in BOOLEAN :
          (/\ StopTask(id, u, tick)
           /\ tasks[activeTasks[id]].usingQueue
           /\ tasks[activeTasks[id]].stopRequested
           /\ tasks[activeTasks[id]].endTime # NoTime)
          => tasks' = tasks /\ queues' = queues]_vars

\* C7: a task that is Stopped or Completed never changes state again.
TerminalStateIsFinal ==
    [][\A o \in TaskObjects :
          ~tasks[o].isSending => TaskState(tasks'[o]) = TaskState(tasks[o])]_vars

\* C8: /task-status and /stop-task answer Forbidden to every caller who is not
\* the task's owner, a caller without userId included.
ForeignCallerIsForbidden ==
    \A id \in TaskIds : activeTasks[id] # 0 =>
        \A u \in (Users \cup {NoUser}) \ {tasks[activeTasks[id]].ownerId} :
            /\ TaskStatus(id, u).code = 403
            /\ StopTaskStatus(id, u) = 403

\* C9: no /send-message request creates a task or enqueues a message unless
\* its caller is the session's owner; a request without userId creates none.
OnlyOwnerSubmits ==
    [][\A sid \in SessionIds, u \in Users \cup {NoUser}, n \in 1..MaxMsgs,
          d \in Delays, tick \in BOOLEAN :
          (SendMessageQueued(sid, u, PlainFile(n), d, tick)
           \/ SendMessageInline(sid, u, PlainFile(n), d, tick))
          => u = sessions[activeClients[sid]].ownerId]_vars

\* C10: when the first send of a task fails with a fatal (authentication)
\* error, the loop ends at once: the task has sent nothing, carries an error,
\* waits for no retry, and the session is no longer registered.
FatalFirstSendFailsTask ==
    [][\A o \in DOMAIN tasks, tick \in BOOLEAN :
          (/\ InlineSendDone(o, "fatal", tick)
           /\ tasks[o].index = 0 /\ tasks[o].sendAttempts = 0
           /\ ~tasks[o].stopRequested)
          => /\ tasks'[o].pc = "done"
             /\ tasks'[o].sentMessages = 0
             /\ tasks'[o].error # "none"
             /\ ~sessions'[tasks[o].sess].registered]_vars

\* C11: the reconnect attempts made in a row for one session (the sockets
\* created by initializeWhatsAppSession(sessionInfo, true) since the last open)
\* never exceed the configured maximum.
ReconnectAttemptsBounded ==
    \A so \in DOMAIN sessions : sessions[so].reconnectAttempts <= maxReconnectAttempts

\* C12: a task whose loop ended with its reconnect attempts exhausted is not
\* marked completed, carries the cause as its error, and has not counted the
\* messages it never sent.
ExhaustedReconnectFailsTask ==
    \A o \in TaskObjects :
        (tasks[o].pc = "done" /\ tasks[o].reconnectAttempts > maxReconnectAttempts)
        => /\ tasks[o].completed # "true"
           /\ tasks[o].error = "Max reconnection attempts reached"
           /\ tasks[o].sentMessages < tasks[o].totalMessages

\* A step in which sendMessage is called: the processor of queue q is now
\* awaiting a send it was not awaiting before, or the loop of inline task o is.
QueueHands(q) ==
    /\ q \in DOMAIN proc'
    /\ proc'[q].pc = "sending"
    /\ q \in DOMAIN proc => proc'[q] # proc[q]

InlineHands(o) ==
    /\ o \in DOMAIN tasks'
    /\ ~tasks'[o].usingQueue
    /\ tasks'[o].pc = "sending"
    /\ o \in DOMAIN tasks =>
          (tasks[o].pc # "sending" \/ tasks[o].index # tasks'[o].index)

\* sendMessage is called with line j of task object o
HandsLine(o, j) ==
    \/ \E q \in DOMAIN proc' : QueueHands(q) /\ proc'[q].job.text = <<o, j>>
    \/ InlineHands(o) /\ tasks'[o].index + 1 = j

\* C13: whenever sendMessage is called with line j of a task, that line was
\* not accepted before and every earlier line of the task is sent or given up.
LinesHandedInOrder ==
    [][\A o \in DOMAIN tasks' : \A j \in DOMAIN tasks'[o].lines :
          HandsLine(o, j)
          => /\ tasks'[o].lines[j] # "sent"
             /\ \A i \in 1..(j - 1) : tasks'[o].lines[i] # "no"]_vars

\* The sends in flight on socket h: the queue processors and the inline loops
\* that await a sendMessage call made on it.
SendsInFlight(h) ==
    Cardinality({q \in DOMAIN proc : proc[q].pc = "sending" /\ proc[q].sock = h})
    + Cardinality({o \in DOMAIN tasks : ~tasks[o].usingQueue
                       /\ tasks[o].pc = "sending" /\ tasks[o].waClient = h})

\* C14: at most one send is in flight on a session's connection at any time.
OneSendInFlight ==
    \A h \in DOMAIN socks : SendsInFlight(h) <= 1
\* the calls of initializeWhatsAppSession/initializeClient for a session that
\* have not returned: from /code, the timers and intervals, the queue
\* processor and ensureSessionConnected
InitsInFlight(so) ==
    sessions[so].pendFirst + sessions[so].pendRe + sessions[so].pendV1
    + Cardinality({q \in DOMAIN proc : proc[q].pc = "reinit" /\ proc[q].sess = so})
    + Cardinality({o \in DOMAIN tasks : /\ tasks[o].pc \in {"h_init", "ens_init"}
                                        /\ tasks[o].sess = so})

\* C15: for every session at most one client initialization is in flight at
\* a time; a reconnect requested while another is pending starts no second
\* one.
OneReconnectInFlight ==
    \A so \in DOMAIN sessions : InitsInFlight(so) <= 1

\* the sockets makeWASocket created for a session that have neither closed
\* nor been ended
LiveSocks(so) ==
    {h \in DOMAIN socks : socks[h].sess = so /\ socks[h].state \in {"connecting", "open"}}

\* C16: every session has at most one live socket at any time.
OneLiveSocketPerSession ==
    \A so \in DOMAIN sessions : Cardinality(LiveSocks(so)) <= 1

\* the state the loggedOut branch of the close handler leaves a session in:
\* registered and forceReconnect are false until the user pairs again, which
\* makes a new sessionInfo
AuthFailed(so) == ~sessions[so].registered /\ ~sessions[so].forceReconnect

\* C17: no step starts a client initialization for a session whose
\* connection closed as logged out.
NoReconnectAfterLogout ==
    [][\A so \in DOMAIN sessions :
          AuthFailed(so) => InitsInFlight(so)' <= InitsInFlight(so)]_vars

\* C18: a step that calls sendMessage, from the queue processor or from a
\* task loop, leaves the session Connected: client present, registered, not
\* connecting.
SendOnlyWhenConnected ==
    [][/\ \A q \in DOMAIN proc' :
             QueueHands(q) => Connected(sessions'[proc'[q].sess])
       /\ \A o \in DOMAIN tasks' :
             InlineHands(o) => Connected(sessions'[tasks'[o].sess])]_vars

\* the queues that hold a job for a line of object o, and the processors
\* with such a job in hand
JobsOf(o) ==
    {q \in DOMAIN queues :
        \E k \in DOMAIN queues[q].messages : queues[q].messages[k].text[1] = o}
InHand(o) == {q \in DOMAIN proc : proc[q].pc # "idle" /\ proc[q].job.text[1] = o}

\* C19: a submission whose file has no non-empty line after trimming never
\* becomes a task: its request is still being validated or was rejected, no
\* taskId of activeTasks leads to it, the queues hold no job for it and no
\* send was issued for it.
EmptyFileCreatesNoTask ==
    \A o \in DOMAIN tasks :
        tasks[o].totalMessages = 0
        => /\ tasks[o].pc \in {"h_init", "h_wait", "rejected"}
           /\ \A id \in TaskIds : activeTasks[id] # o
           /\ JobsOf(o) = {} /\ InHand(o) = {}
           /\ ~tasks[o].isSending /\ tasks[o].sentMessages = 0

\* both handlers have answered "Invalid message file" to a submission
EmptyFileRejected ==
    /\ \E o \in DOMAIN tasks : /\ tasks[o].totalMessages = 0 /\ tasks[o].usingQueue
                               /\ tasks[o].pc = "rejected"
                               /\ tasks[o].error = "Invalid message file"
    /\ \E o \in DOMAIN tasks : /\ tasks[o].totalMessages = 0 /\ ~tasks[o].usingQueue
                               /\ tasks[o].pc = "rejected"
                               /\ tasks[o].error = "Invalid message file"

\* C20: a submission without a target is answered with a validation error,
\* and a submission with a negative delay never becomes a task: its request
\* is still being validated or was rejected and no taskId of activeTasks
\* leads to it.
InvalidFormCreatesNoTask ==
    /\ \A sid \in SessionIds, u \in Users \cup {NoUser}, n \in 0..MaxMsgs :
          SendMessageStatus(sid, u, FALSE, n) \in {400, 403}
    /\ \A o \in DOMAIN tasks :
          tasks[o].delaySec < 0
          => /\ tasks[o].pc \in {"h_init", "h_wait", "rejected"}
             /\ \A id \in TaskIds : activeTasks[id] # o

\* the lines of a file with a character that is no blank, what such a line
\* holds from its first to its last such character, and how many such lines
\* a file has up to line i
TextLines(file) == {i \in DOMAIN file : \E k \in DOMAIN file[i] : file[i][k] # "sp"}
Inked(l) == {k \in DOMAIN l : l[k] # "sp"}
Body(l) ==
    SubSeq(l, CHOOSE k \in Inked(l) : \A m \in Inked(l) : k <= m,
              CHOOSE k \in Inked(l) : \A m \in Inked(l) : k >= m)
Rank(file, i) == Cardinality({j \in TextLines(file) : j <= i})

\* C21: totalMessages of every task is the number of lines of its file that
\* are non-empty after trimming, its messages are those lines trimmed, in
\* file order, the queue holds its lines in that order, and neither
\* totalMessages nor the messages change after creation.
TotalIsFileLineCount ==
    /\ [](\A o \in TaskObjects :
            /\ tasks[o].totalMessages = Cardinality(TextLines(tasks[o].file))
            /\ Len(tasks[o].messages) = tasks[o].totalMessages
            /\ \A i \in TextLines(tasks[o].file) :
                  tasks[o].messages[Rank(tasks[o].file, i)] = Body(tasks[o].file[i])
            /\ \A q \in DOMAIN queues : \A k, m \in DOMAIN queues[q].messages :
                  (k < m /\ queues[q].messages[k].text[1] = o
                         /\ queues[q].messages[m].text[1] = o)
                  => queues[q].messages[k].text[2] < queues[q].messages[m].text[2])
    /\ [][\A o \in TaskObjects :
             /\ tasks'[o].totalMessages = tasks[o].totalMessages
             /\ tasks'[o].messages = tasks[o].messages]_vars

\* a task has ended with messages sent whose file had a blank line and a
\* line with blanks around its text
TrimmedFileTaskDone ==
    \E o \in TaskObjects :
        /\ ~tasks[o].isSending /\ tasks[o].sentMessages > 0
        /\ tasks[o].totalMessages < Len(tasks[o].file)
        /\ \E i \in TextLines(tasks[o].file) :
              Len(Body(tasks[o].file[i])) < Len(tasks[o].file[i])

\* the messages of a task the transport accepted
Accepted(t) == {i \in DOMAIN t.lines : t.lines[i] = "sent"}

\* C22: sentMessages of every task is the number of its messages the
\* transport accepted; a message given up does not count.
SentCountsAcceptedLines ==
    \A o \in TaskObjects : tasks[o].sentMessages = Cardinality(Accepted(tasks[o]))

\* C23: a task with a message that was given up carries an error, and
\* /task-status returns that error to the task's owner.
FailuresAreReported ==
    \A id \in TaskIds :
        (/\ activeTasks[id] # 0
         /\ \E i \in DOMAIN tasks[activeTasks[id]].lines :
               tasks[activeTasks[id]].lines[i] = "dropped")
        => /\ tasks[activeTasks[id]].error # "none"
           /\ "error" \in DOMAIN TaskStatus(id, tasks[activeTasks[id]].ownerId)
           /\ TaskStatus(id, tasks[activeTasks[id]].ownerId).error
                 = tasks[activeTasks[id]].error

\* C24: a task whose loop ended in `catch (error)` has been cleaned up, with
\* isSending cleared and endTime written, and is Failed: it is not marked
\* completed.
CrashedLoopFails ==
    \A o \in TaskObjects :
        (tasks[o].pc = "done" /\ tasks[o].error = "TypeError")
        => /\ ~tasks[o].isSending /\ tasks[o].endTime # NoTime
           /\ tasks[o].completed # "true"

\* C25: safeDeleteFile is called for the uploaded file exactly once on every
\* exit path: not before the request is rejected or answered or the task's
\* loop ends, once then, and never again.
FileDeletedOnce ==
    \A o \in DOMAIN tasks :
        tasks[o].deleteCalls = IF tasks[o].pc \in {"rejected", "queued", "done"}
                               THEN 1 ELSE 0

\* a task of the first revision whose loop crashed has had its file deleted
CrashedTaskFileDeleted ==
    \E o \in TaskObjects :
        /\ tasks[o].pc = "done" /\ tasks[o].error = "TypeError"
        /\ tasks[o].deleteCalls = 1

\* C26: a task that is still sending has its entry in activeTasks, and a
\* task in activeTasks that has ended, with nothing left at work for it, has
\* its removal timer pending.
EndedTaskIsEvicted ==
    \A o \in TaskObjects :
        /\ tasks[o].isSending => activeTasks[tasks[o].taskId] # 0
        /\ (/\ activeTasks[tasks[o].taskId] = o
            /\ ~tasks[o].isSending /\ ~Working(o))
           => tasks[o].evict

\* C27: no two tasks ever created have the same taskId, and every task that
\* is sending is the one activeTasks holds under its taskId.
TaskIdsAreUnique ==
    /\ \A o1, o2 \in TaskObjects : o1 # o2 => tasks[o1].taskId # tasks[o2].taskId
    /\ \A o \in TaskObjects :
          (tasks[o].isSending /\ activeTasks[tasks[o].taskId] # 0)
          => activeTasks[tasks[o].taskId] = o

\* the recipient address of every message of a task: the address the queue
\* job carries (second revision) or the one the loop resolves (first revision)
EndsWith(x, part) ==
    Len(x) >= Len(part) /\ SubSeq(x, Len(x) - Len(part) + 1, Len(x)) = part

Recipients(o) ==
    {Resolve(tasks[o].targetType, tasks[o].target)}
        \cup UNION {{queues[q].messages[k].recipient :
                        k \in {j \in DOMAIN queues[q].messages :
                                  queues[q].messages[j].text[1] = o}} : q \in JobsOf(o)}
        \cup {proc[q].job.recipient : q \in InHand(o)}

\* C28: address resolution is idempotent, every resolved address ends with the
\* suffix of its kind (the group suffix for a group target, the individual
\* suffix otherwise), and a target that already ends with that suffix is left
\* as it is.
ResolvedAddressEndsWithSuffix ==
    \A o \in TaskObjects : \A r \in Recipients(o) :
        /\ Resolve(tasks[o].targetType, r) = r
        /\ EndsWith(r, Suffix(tasks[o].targetType))
        /\ (EndsWith(tasks[o].target, Suffix(tasks[o].targetType)) => r = tasks[o].target)

\* the tasks whose request is inside `await initializeClient(...)` of
\* ensureSessionConnected: the one call of that function that creates a socket
\* and writes the session's client and isConnecting
Initializing(ts, so) ==
    {o \in DOMAIN ts : ts[o].sess = so /\ ts[o].pc \in {"h_init", "ens_init"}}

\* C29: connect is idempotent: a connect request (GET /code,
\* ensureSessionConnected) for a session that is Connecting (isConnecting) or
\* Connected creates no transport handle and changes no field of the session:
\* GET /code makes no session object in its place, and no request starts
\* initializeClient for it.
ConnectIsIdempotent ==
    [][\A so \in DOMAIN sessions :
          sessions[so].isConnecting \/ Connected(sessions[so])
          => /\ Initializing(tasks', so) \subseteq Initializing(tasks, so)
             /\ activeClients'[sessions[so].sessionId] = so
                    \/ activeClients[sessions[so].sessionId] # so]_vars

\* C30: for every accepted submission the task is in the registry
\* (activeTasks) when the HTTP response is issued, and the response is issued
\* before any of the task's sends, retries or inter-message delays has
\* finished: in the step in which a request becomes a task (the step of
\* `res.json`) the registry holds the task under its id, every line of the
\* task is still unsent, nothing is counted and the task has not ended.
RegisteredBeforeAnswer ==
    [][\A o \in TaskObjects' \ TaskObjects :
          /\ activeTasks'[tasks'[o].taskId] = o
          /\ tasks'[o].sentMessages = 0
          /\ \A i \in DOMAIN tasks'[o].lines : tasks'[o].lines[i] = "no"
          /\ tasks'[o].endTime = NoTime]_vars

\* an answered task of each revision, registered, whose first send is still
\* in flight
AnsweredBeforeFirstSendEnds ==
    \E o \in TaskObjects :
        /\ activeTasks[tasks[o].taskId] = o
        /\ tasks[o].sentMessages = 0
        /\ IF tasks[o].usingQueue
           THEN \E q \in InHand(o) : proc[q].pc = "sending"
           ELSE tasks[o].pc = "sending"

\* task o is inside its delay between two messages: a chunk of the inline
\* loop's delay, or the processor's delay(messageJob.delayMs) after one of
\* its jobs
InDelay(o) ==
    IF tasks[o].usingQueue THEN \E q \in InHand(o) : proc[q].pc = "delay"
    ELSE tasks[o].pc = "delay"

\* nothing of the stopped task o is left to send: its loop is in a delay or
\* over, no queue holds a job of it, and no processor is about to send one
Halted(o) ==
    /\ tasks[o].stopRequested
    /\ IF tasks[o].usingQueue
       THEN /\ JobsOf(o) = {}
            /\ \A q \in InHand(o) : proc[q].pc \in {"delay", "retry_wait"}
       ELSE tasks[o].pc \in {"delay", "done"}

LoopWaits == {"ens_init", "ens_wait", "err_wait", "retry_wait", "delay"}

\* C32: every suspension point of the inline loop observes stopRequested: a
\* loop that is stopped while it waits inside ensureSessionConnected, in a
\* retry back-off or in its delay issues no send when that wait ends.
WaitsObserveStop ==
    [][\A o \in TaskObjects :
          /\ ~tasks[o].usingQueue
          /\ tasks[o].stopRequested
          /\ tasks[o].pc \in LoopWaits
          => tasks'[o].pc # "sending"]_vars

\* the jobs a queue holds
JobSet(msgs) == {msgs[k] : k \in DOMAIN msgs}

\* a step in which a send of the inline loop of o ends without the line being
\* accepted and the loop goes on, and one in which a send of the processor of
\* queue q ends without its job being accepted
InlineSendFails(o) ==
    /\ ~tasks[o].usingQueue
    /\ tasks[o].pc = "sending"
    /\ tasks'[o].pc # "done"
    /\ tasks'[o].index = tasks[o].index
    /\ tasks'[o].pc # "sending" \/ tasks'[o].sendAttempts # tasks[o].sendAttempts
    /\ tasks'[o].lines[tasks[o].index + 1] # "sent"

QueueSendFails(q) ==
    /\ proc[q].pc = "sending"
    /\ proc'[q] # proc[q]
    /\ tasks'[proc[q].job.text[1]].lines[proc[q].job.text[2]] # "sent"

\* C33: each message is handed to the transport at most 3 times.  Inline
\* loop: a send is issued only with sendAttempts below 3, every failed send
\* raises sendAttempts by one, and sendAttempts never falls while the loop is
\* at the same message.  Queue processor: a send is issued only with
\* retryCount below 3, every failed send raises retryCount by one or removes
\* a message, and retryCount falls only together with the removal of the
\* message at the head, the only one in the queue that was handed over.
AtMostThreeSends ==
    [][/\ \A o \in DOMAIN tasks :
             /\ InlineHands(o) => tasks'[o].sendAttempts < 3
             /\ InlineSendFails(o) => tasks'[o].sendAttempts = tasks[o].sendAttempts + 1
             /\ tasks'[o].index = tasks[o].index
                   => tasks'[o].sendAttempts >= tasks[o].sendAttempts
       /\ \A q \in DOMAIN proc :
             /\ QueueHands(q) => queues'[q].retryCount < 3
             /\ QueueSendFails(q)
                   => \/ queues'[q].retryCount = queues[q].retryCount + 1
                      \/ /\ queues[q].retryCount = 2
                         /\ queues'[q].messages = Shift(queues[q].messages)
             /\ queues'[q].retryCount < queues[q].retryCount
                   => queues'[q].messages = Shift(queues[q].messages)
             /\ QueueHands(q) /\ proc'[q].job \in JobSet(queues'[q].messages)
                   => proc'[q].job = Head(queues'[q].messages)]_vars

\* a message that was handed over three times and given up, in each revision
ThirdSendFailed ==
    /\ \E o \in TaskObjects : ~tasks[o].usingQueue /\ tasks[o].sendAttempts = 3
    /\ \E o \in TaskObjects : tasks[o].usingQueue
          /\ \E i \in DOMAIN tasks[o].lines : tasks[o].lines[i] = "dropped"

\* a step in which the close handler of socket h sets the timer of a
\* reconnect
SetsReconnectTimer(h) ==
    /\ socks[h].state # "closed" /\ socks'[h].state = "closed"
    /\ IF socks[h].via = "v2"
       THEN sessions'[socks[h].sess].timersV2 > sessions[socks[h].sess].timersV2
       ELSE sessions'[socks[h].sess].timersV1 > sessions[socks[h].sess].timersV1

\* C34: the wait before the reconnect that follows the n-th connection
\* failure in a row is the wait after the first failure doubled n - 1 times
\* and capped: it doubles with every further failure, never exceeds the cap
\* and depends on n alone.
BackoffDoublesPerFailure ==
    [][\A h \in DOMAIN socks :
          SetsReconnectTimer(h)
          => LET so == socks[h].sess
                 n == sessions'[so].closes
             IN  ReconnectDelayMs(sessions[so], socks[h].via)
                    = Min(backoffBaseMs * Pow2(n - 1), backoffCapMs)]_vars

\* the jobs that a step removes from queue q
Removed(q) == JobSet(queues[q].messages) \ JobSet(queues'[q].messages)

\* C35: stopping a task removes only that task's queued messages: whatever
\* the interleaving of stop-task with the queue processor, a job leaves the
\* queue only when its taskId was stopped, when it was sent, or when it was
\* given up after its retries.
StopRemovesOnlyOwnJobs ==
    [][\A q \in DOMAIN queues : \A job \in Removed(q) :
          \/ \E o \in DOMAIN tasks' : /\ tasks'[o].taskId = job.taskId
                                       /\ tasks'[o].stopRequested
          \/ tasks'[job.text[1]].lines[job.text[2]] \in {"sent", "dropped"}]_vars

\* delete-session has succeeded for session object so: activeClients no
\* longer holds it and it is marked for no reconnection
Deleted(so) ==
    /\ activeClients[sessions[so].sessionId] # so
    /\ ~sessions[so].forceReconnect

\* C36: after delete-session has succeeded for a session no send is issued
\* for it any more, neither by the processor of its queue nor by the loop of
\* an inline task.
NoSendAfterDelete ==
    [][/\ \A q \in DOMAIN proc :
             QueueHands(q) /\ q \in DOMAIN proc => ~Deleted(proc'[q].sess)
       /\ \A o \in DOMAIN tasks :
             InlineHands(o) => ~Deleted(tasks[o].sess)]_vars

\* C37: once a task is reported as no longer sending (isSending = false,
\* written by stop-task, delete-session or the finally block) its
\* sentMessages never changes: the finalProgress that stop-task returned
\* stays the task's progress.
SentCountFinalWhenNotSending ==
    [][\A o \in TaskObjects :
          ~tasks[o].isSending
          => tasks'[o].sentMessages = tasks[o].sentMessages]_vars

\* the q-th queue object, empty as long as it is not made
QueueAt(q) == IF q \in DOMAIN queues THEN queues[q] ELSE NewQueue

\* C38: no queued message is stranded.  Whenever a queue holds a message its
\* processMessageQueue loop is running (isProcessing, with a loop that is not
\* over); and when every transport call returns or throws, every queue that
\* holds messages is emptied in the end and isProcessing is false again.
NoMessageStranded ==
    /\ [](\A q \in DOMAIN queues :
            /\ Len(queues[q].messages) > 0 => queues[q].isProcessing
            /\ queues[q].isProcessing <=> proc[q].pc \notin {"idle", "dead"})
    /\ \A q \in 1..MaxSess :
          (Len(QueueAt(q).messages) > 0)
          ~> (QueueAt(q).messages = <<>> /\ ~QueueAt(q).isProcessing)

\* C39: the retry budget of the queue processor is per message: when the
\* processor hands over a message other than the one it handed over last, no
\* failure is counted against it, so that it is dropped only after three
\* failed sends of its own.
RetryBudgetPerMessage ==
    [][\A q \in DOMAIN proc :
          QueueHands(q) /\ proc'[q].job # proc[q].job
          => queues'[q].retryCount = 0]_vars

====
